---- MODULE Spec2Model ----
(***************************************************************************)
(* Model of easyzebra: the Zebra printer session (driver.Zebra), its       *)
(* pending command buffer and serialisation, the transport boundary, and   *)
(* the monochrome bitmap decoder (driver.ZebraBitmap).                     *)
(*                                                                         *)
(* A Python str is a sequence of code points, a bytes object a sequence of *)
(* integers 0..255.  The pending buffer holds encoded lines (bytes).       *)
(***************************************************************************)
EXTENDS Integers, Sequences, FiniteSets, TLC

(***************************************************************************)
(* Bounds of the exploration.                                              *)
(***************************************************************************)
\* Number of appending calls explored per document (since the last clear).
MaxOps == 3
\* The same, where the session defaults and the transport vary as well.
MaxSessionOps == 2
\* Largest bitmap height explored by the decoder.
MaxHeight == 3
\* Largest bitmap width explored, in units of 32 pixels.
MaxWidthWords == 2

\* Appending calls per document in the drawing specification.
MaxDrawOps == 2

\* Labels per label list.
MaxLabels == 3

\* Label lists built into one document.
MaxBuilds == 1

(***************************************************************************)
(* Characters.                                                             *)
(***************************************************************************)
\* The printable ASCII characters, code points 32..126, in order.
AsciiTable ==
  << " ", "!", "<dq>", "#", "$", "%", "&", "'", "(", ")", "*", "+", ",", "-",
     ".", "/", "0", "1", "2", "3", "4", "5", "6", "7", "8", "9", ":", ";",
     "<", "=", ">", "?", "@", "A", "B", "C", "D", "E", "F", "G", "H", "I",
     "J", "K", "L", "M", "N", "O", "P", "Q", "R", "S", "T", "U", "V", "W",
     "X", "Y", "Z", "[", "<bs>", "]", "^", "_", "<bq>", "a", "b", "c", "d", "e",
     "f", "g", "h", "i", "j", "k", "l", "m", "n", "o", "p", "q", "r", "s",
     "t", "u", "v", "w", "x", "y", "z", "{", "|", "}", "~" >>

\* Code point of a one-character literal.
Ord(c) == IF c = "\n" THEN 10
          ELSE 31 + (CHOOSE i \in 1..Len(AsciiTable) : AsciiTable[i] = c)

\* A str literal, written as a tuple of one-character strings.
S(t) == [i \in 1..Len(t) |-> Ord(t[i])]

NL == S(<<"\n">>)

\* Concatenation of a sequence of sequences.
RECURSIVE Flatten(_)
Flatten(ss) == IF ss = <<>> THEN <<>> ELSE Head(ss) \o Flatten(Tail(ss))

\* sep.join(parts)
RECURSIVE Join(_, _)
Join(sep, parts) ==
  IF parts = <<>> THEN <<>>
  ELSE IF Len(parts) = 1 THEN parts[1]
  ELSE parts[1] \o sep \o Join(sep, Tail(parts))

\* str(n) for a non-negative int: its decimal digits.
RECURSIVE Dec(_)
Dec(n) == IF n < 10 THEN <<48 + n>> ELSE Dec(n \div 10) \o <<48 + (n % 10)>>

\* str.encode(utf-8) of one code point; <<>> marks a code point that
\* cannot be encoded (a lone surrogate), for which encode raises.
Utf8Char(c) ==
  IF c < 128 THEN <<c>>
  ELSE IF c < 2048 THEN <<192 + (c \div 64), 128 + (c % 64)>>
  ELSE IF c >= 55296 /\ c <= 57343 THEN <<>>
  ELSE IF c < 65536
       THEN <<224 + (c \div 4096), 128 + ((c \div 64) % 64), 128 + (c % 64)>>
  ELSE <<240 + (c \div 262144), 128 + ((c \div 4096) % 64),
         128 + ((c \div 64) % 64), 128 + (c % 64)>>

Encodable(s) == \A i \in 1..Len(s) : Utf8Char(s[i]) # <<>>

\* line.encode(utf-8)
Utf8(s) == Flatten([i \in 1..Len(s) |-> Utf8Char(s[i])])

\* unidecode(text): ASCII passes through, a Latin-1 letter maps to its base
\* letter, a lone surrogate is dropped.
UnidecodeChar(c) ==
  IF c < 128 THEN <<c>>
  ELSE IF c = 233 THEN S(<<"e">>)
  ELSE IF c >= 55296 /\ c <= 57343 THEN <<>>
  ELSE S(<<"?">>)

unidecode(s) == Flatten([i \in 1..Len(s) |-> UnidecodeChar(s[i])])


(***************************************************************************)
(* Module constants of driver.py.                                          *)
(***************************************************************************)
\* Optional arguments: None, or Some(v).
None == <<>>
Some(v) == <<v>>

MODE_SOCKET == "SOCKET"
MODE_HTTP == "HTTP"
MODE_HTTPS == "HTTPS"
ALL_MODES == {MODE_SOCKET, MODE_HTTP, MODE_HTTPS}

JUSTIFICATION_LEFT == S(<<"L">>)
JUSTIFICATION_CENTRE == S(<<"C">>)
JUSTIFICATION_RIGHT == S(<<"R">>)
JUSTIFICATION_JUSTIFIED == S(<<"J">>)

ORIENTATION_0 == S(<<"N">>)
ORIENTATION_90 == S(<<"R">>)
ORIENTATION_180 == S(<<"I">>)
ORIENTATION_270 == S(<<"B">>)
ALL_ORIENTATIONS == {ORIENTATION_0, ORIENTATION_90, ORIENTATION_180, ORIENTATION_270}

(***************************************************************************)
(* State.                                                                  *)
(***************************************************************************)
VARIABLES
  constructed,       \* a Zebra object exists
  mode,              \* Zebra._mode
  socket,            \* Zebra.socket: "None", "open", or "closed"
  current_message,   \* Zebra.current_message: the pending encoded lines
  pos,               \* Zebra.pos
  char_size,         \* Zebra.char_size
  font,              \* Zebra._font
  convert_to_ascii,  \* the module global _convert_to_ascii
  bmp_file,          \* the bytes of the bitmap file handed to ZebraBitmap
  bmp_handle,        \* the zebra_handle handed to ZebraBitmap
  bmp,               \* the ZebraBitmap construction: its outcome and fields
  op,                \* the call made last
  args,              \* the arguments of the call made last
  raised,            \* the exception the last call raised, or "none"
  ret,               \* the document the last call serialised, or <<>>
  wire,              \* the bytes the last send wrote to the transport
  nops,              \* appending calls made on the current document
  marks              \* positions in current_message of next_label's lines

vars == <<constructed, mode, socket, current_message, pos, char_size, font,
          convert_to_ascii, bmp_file, bmp_handle, bmp, op, args, raised, ret,
          wire, nops, marks>>

session == <<constructed, mode, socket, current_message, pos, char_size, font>>
defaults == <<pos, char_size, font>>
bmpvars == <<bmp_file, bmp_handle, bmp>>

(***************************************************************************)
(* The pending buffer and its serialisation.                               *)
(***************************************************************************)
\* Zebra.message_line, folded over the lines one call emits in order: each
\* line is encoded and appended; an unencodable line raises and the lines
\* already appended stay.
RECURSIVE message_lines(_, _)
message_lines(msg, lines) ==
  IF lines = <<>> THEN [msg |-> msg, raised |-> "none"]
  ELSE IF ~Encodable(Head(lines))
       THEN [msg |-> msg, raised |-> "UnicodeEncodeError"]
  ELSE message_lines(Append(msg, Utf8(Head(lines))), Tail(lines))

DocStart == S(<<"^", "X", "A", "\n", "\n">>)
DocEnd == S(<<"\n", "\n", "^", "X", "Z">>)

\* Zebra.zpl
zpl_NoJoin(msg) == DocStart \o Flatten(msg) \o DocEnd
zpl(msg) == DocStart \o Join(NL, msg) \o DocEnd

\* The directive prefixes and the field separator of the format strings.
Comma == S(<<",">>)
FOPrefix == S(<<"^", "F", "O">>)
APrefix == S(<<"^", "A">>)
FDPrefix == S(<<"^", "F", "D">>)
FBPrefix == S(<<"^", "F", "B">>)
GBPrefix == S(<<"^", "G", "B">>)

\* The lines of the individual directives.
FieldOriginLine(p) == FOPrefix \o Dec(p[1]) \o Comma \o Dec(p[2])
FieldSeparatorLine == S(<<"^", "F", "S">>)
FontLine(f, orientation, cs) ==
  APrefix \o f \o orientation \o Comma \o Dec(cs[1]) \o Comma \o Dec(cs[2])
FieldDataLine(text) == FDPrefix \o text
FieldBlockLine(width, max_lines, add_line_space, justification, hanging_indent) ==
  FBPrefix \o Dec(width) \o Comma \o Dec(max_lines) \o Comma
    \o Dec(add_line_space) \o Comma \o justification \o Comma
    \o Dec(hanging_indent)
BoxLine(width, height, thickness, colour, rounding) ==
  GBPrefix \o Dec(width) \o Comma \o Dec(height) \o Comma \o Dec(thickness)
    \o Comma \o colour \o Comma \o Dec(rounding)
NextLabelLine_NoBlankLines == S(<<"^", "X", "Z", "\n", "^", "X", "A">>)
NextLabelLine == S(<<"\n", "\n", "^", "X", "Z", "\n", "^", "X", "A", "\n", "\n">>)

OrDefault_Session(arg, dflt) == dflt
\* An optional argument, or the session default.
OrDefault(arg, dflt) == IF arg = None THEN dflt ELSE arg[1]

\* The convert_to_ascii argument: DEFAULT selects the module global.
ConvertFlag(arg) == IF arg = "DEFAULT" THEN convert_to_ascii ELSE arg = "True"

\* The text payload after optional transliteration.
AsciiText(text, arg) == IF ConvertFlag(arg) THEN unidecode(text) ELSE text


(***************************************************************************)
(* Inputs of the exploration.                                              *)
(***************************************************************************)
TextAccent == S(<<"c", "a", "f">>) \o <<233>>
TextSurrogate == S(<<"x">>) \o <<55296>>
TextMarker == NextLabelLine

PosValues == {<<0, 0>>, <<30, 50>>}
CharSizeValues == {<<50, 40>>, <<20, 20>>}
FontValues == {S(<<"0">>), S(<<"A">>), S(<<"A", "B">>), <<>>}
ModeValues == ALL_MODES \cup {"FTP"}
EndpointValues == {None, Some("/print")}

\* The write_text calls explored.
WriteTextCalls ==
  { [text |-> TextAccent, pos |-> None, char_size |-> None, font |-> None,
     convert_to_ascii |-> "DEFAULT", orientation |-> ORIENTATION_0],
    [text |-> TextAccent, pos |-> Some(<<3, 12>>), char_size |-> Some(<<20, 10>>),
     font |-> Some(S(<<"A">>)), convert_to_ascii |-> "True",
     orientation |-> ORIENTATION_270],
    [text |-> TextAccent, pos |-> None, char_size |-> None, font |-> None,
     convert_to_ascii |-> "DEFAULT", orientation |-> S(<<"X">>)],
    [text |-> TextAccent, pos |-> Some(<<3, 12>>), char_size |-> None,
     font |-> Some(S(<<"A", "B">>)), convert_to_ascii |-> "False",
     orientation |-> ORIENTATION_90],
    [text |-> TextSurrogate, pos |-> None, char_size |-> None, font |-> None,
     convert_to_ascii |-> "False", orientation |-> ORIENTATION_180],
    [text |-> TextMarker, pos |-> None, char_size |-> None, font |-> None,
     convert_to_ascii |-> "DEFAULT", orientation |-> ORIENTATION_0] }

\* The write_text_block calls explored.
WriteTextBlockCalls ==
  { [text |-> TextAccent, width |-> 400, max_lines |-> 1,
     justification |-> JUSTIFICATION_LEFT, add_line_space |-> 0, pos |-> None,
     char_size |-> None, font |-> None, hanging_indent |-> 0,
     convert_to_ascii |-> "DEFAULT", orientation |-> ORIENTATION_0],
    [text |-> TextAccent, width |-> 400, max_lines |-> 2,
     justification |-> JUSTIFICATION_CENTRE, add_line_space |-> 3,
     pos |-> Some(<<3, 12>>), char_size |-> Some(<<20, 10>>),
     font |-> Some(S(<<"A">>)), hanging_indent |-> 5,
     convert_to_ascii |-> "True", orientation |-> ORIENTATION_90],
    [text |-> TextAccent, width |-> 400, max_lines |-> 1,
     justification |-> S(<<"X">>), add_line_space |-> 0, pos |-> None,
     char_size |-> None, font |-> None, hanging_indent |-> 0,
     convert_to_ascii |-> "DEFAULT", orientation |-> ORIENTATION_0],
    [text |-> TextAccent, width |-> 400, max_lines |-> 1,
     justification |-> JUSTIFICATION_RIGHT, add_line_space |-> 0, pos |-> None,
     char_size |-> None, font |-> Some(S(<<"A", "B">>)), hanging_indent |-> 0,
     convert_to_ascii |-> "DEFAULT", orientation |-> ORIENTATION_0],
    [text |-> TextAccent, width |-> 400, max_lines |-> 1,
     justification |-> JUSTIFICATION_JUSTIFIED, add_line_space |-> 0,
     pos |-> None, char_size |-> None, font |-> None, hanging_indent |-> 0,
     convert_to_ascii |-> "DEFAULT", orientation |-> S(<<"X">>)] }

\* The draw_box calls explored.
DrawBoxCalls ==
  { [width |-> 100, height |-> 40, thickness |-> 1, colour |-> S(<<"B">>),
     rounding |-> 0, pos |-> None],
    [width |-> 100, height |-> 0, thickness |-> 2, colour |-> S(<<"W">>),
     rounding |-> 0, pos |-> Some(<<3, 12>>)] }

\* The send_message situations explored.  override: a host or port override
\* is given.  script: what the socket returns from successive send() calls;
\* the i-th write accepts at most the i-th count, and once the script is
\* used up a write accepts everything that remains.  http_error: the HTTP
\* response carries a non-empty error field.
SendCases ==
  { [override |-> FALSE, script |-> <<>>, http_error |-> FALSE],
    [override |-> FALSE, script |-> <<7>>, http_error |-> FALSE],
    [override |-> FALSE, script |-> <<7, 0>>, http_error |-> TRUE],
    [override |-> FALSE, script |-> <<0>>, http_error |-> TRUE],
    [override |-> TRUE, script |-> <<>>, http_error |-> FALSE],
    [override |-> TRUE, script |-> <<7>>, http_error |-> TRUE] }


(***************************************************************************)
(* Construction, session defaults, connection.                             *)
(***************************************************************************)
NoBitmap == [state |-> "none"]

\* No Zebra object yet.
InitConfig ==
  /\ constructed = FALSE
  /\ mode = "None"
  /\ socket = "None"
  /\ current_message = <<>>
  /\ pos = <<0, 0>>
  /\ char_size = <<50, 40>>
  /\ font = S(<<"0">>)
  /\ convert_to_ascii = FALSE
  /\ bmp_file = <<>>
  /\ bmp_handle = <<>>
  /\ bmp = NoBitmap
  /\ op = "none"
  /\ args = <<>>
  /\ raised = "none"
  /\ ret = <<>>
  /\ wire = <<>>
  /\ nops = 0
  /\ marks = {}

\* The state Zebra.__init__ leaves for a valid mode m.
Constructed(m) ==
  /\ constructed = TRUE
  /\ mode = m
  /\ socket = "None"
  /\ current_message = <<>>
  /\ pos = <<0, 0>>
  /\ char_size = <<50, 40>>
  /\ font = S(<<"0">>)
  /\ convert_to_ascii = FALSE
  /\ op = "__init__"
  /\ args = <<>>
  /\ raised = "none"
  /\ ret = <<>>
  /\ wire = <<>>
  /\ nops = 0
  /\ marks = {}

\* No bitmap file has been handed to ZebraBitmap.
NoFile ==
  /\ bmp_file = <<>>
  /\ bmp_handle = <<>>
  /\ bmp = NoBitmap

\* Zebra(host): the default, socket mode.
Init == Constructed(MODE_SOCKET) /\ NoFile

\* Zebra(host, mode=m, http_endpoint=...) for any valid mode.
InitSession == NoFile /\ \E m \in ALL_MODES : Constructed(m)

\* A call that returns nothing and leaves the buffer alone.
Observe(name, a, err) ==
  /\ op' = name
  /\ args' = a
  /\ raised' = err
  /\ ret' = <<>>
  /\ wire' = <<>>
  /\ UNCHANGED marks

\* Zebra.__init__
ZebraInit(m, http_endpoint) ==
  /\ ~constructed
  /\ IF (m = MODE_HTTP \/ m = MODE_HTTPS) /\ http_endpoint = None
     THEN /\ Observe("__init__", <<m, http_endpoint>>, "ValueError")
          /\ UNCHANGED session
     ELSE IF m \notin ALL_MODES
     THEN /\ Observe("__init__", <<m, http_endpoint>>, "Exception")
          /\ UNCHANGED session
     ELSE /\ Observe("__init__", <<m, http_endpoint>>, "none")
          /\ constructed' = TRUE
          /\ mode' = m
          /\ socket' = "None"
          /\ current_message' = <<>>
          /\ pos' = <<0, 0>>
          /\ char_size' = <<50, 40>>
          /\ font' = S(<<"0">>)
  /\ UNCHANGED <<convert_to_ascii, bmpvars, nops>>

\* A mode setter without the check.
SetMode_Unchecked(value) ==
  /\ constructed
  /\ Observe("mode", value, "none")
  /\ mode' = value
  /\ UNCHANGED <<constructed, socket, current_message, defaults,
                 convert_to_ascii, bmpvars, nops>>

\* Zebra.mode setter
SetMode(value) ==
  /\ constructed
  /\ IF value \notin ALL_MODES
     THEN /\ Observe("mode", value, "Exception")
          /\ UNCHANGED mode
     ELSE /\ Observe("mode", value, "none")
          /\ mode' = value
  /\ UNCHANGED <<constructed, socket, current_message, defaults,
                 convert_to_ascii, bmpvars, nops>>

\* Zebra.font setter
SetFont(value) ==
  /\ constructed
  /\ IF Len(value) # 1
     THEN /\ Observe("font", value, "ValueError")
          /\ UNCHANGED font
     ELSE /\ Observe("font", value, "none")
          /\ font' = value
  /\ UNCHANGED <<constructed, mode, socket, current_message, pos, char_size,
                 convert_to_ascii, bmpvars, nops>>

\* Assignment to Zebra.pos
SetPos(value) ==
  /\ constructed
  /\ Observe("pos", value, "none")
  /\ pos' = value
  /\ UNCHANGED <<constructed, mode, socket, current_message, char_size, font,
                 convert_to_ascii, bmpvars, nops>>

\* Assignment to Zebra.char_size
SetCharSize(value) ==
  /\ constructed
  /\ Observe("char_size", value, "none")
  /\ char_size' = value
  /\ UNCHANGED <<constructed, mode, socket, current_message, pos, font,
                 convert_to_ascii, bmpvars, nops>>

\* Zebra.set_convert_to_ascii
SetConvertToAscii(value) ==
  /\ Observe("set_convert_to_ascii", value, "none")
  /\ convert_to_ascii' = value
  /\ UNCHANGED <<session, bmpvars, nops>>

\* Zebra.connect; connected says whether the printer accepts the connection.
Connect(connected) ==
  /\ constructed
  /\ IF mode = MODE_SOCKET
     THEN IF connected
          THEN /\ Observe("connect", <<>>, "none")
               /\ socket' = "open"
          ELSE /\ Observe("connect", <<>>, "Exception")
               /\ socket' = "None"
     ELSE /\ Observe("connect", <<>>, "none")
          /\ UNCHANGED socket
  /\ UNCHANGED <<constructed, mode, current_message, defaults,
                 convert_to_ascii, bmpvars, nops>>

\* Zebra.disconnect
Disconnect ==
  /\ constructed
  /\ IF mode = MODE_SOCKET
     THEN IF socket = "None"
          THEN /\ Observe("disconnect", <<>>, "AttributeError")
               /\ UNCHANGED socket
          ELSE /\ Observe("disconnect", <<>>, "none")
               /\ socket' = "closed"
     ELSE /\ Observe("disconnect", <<>>, "none")
          /\ UNCHANGED socket
  /\ UNCHANGED <<constructed, mode, current_message, defaults,
                 convert_to_ascii, bmpvars, nops>>


(***************************************************************************)
(* Drawing operations.                                                     *)
(***************************************************************************)
\* A call that emits the given lines through message_line, in order.
Emit(name, a, lines) ==
  \E r \in {message_lines(current_message, lines)} :
    /\ op' = name
    /\ args' = a
    /\ raised' = r.raised
    /\ current_message' = r.msg
    /\ nops' = IF r.msg = current_message THEN nops ELSE nops + 1
    /\ marks' = marks \cup {i \in (Len(current_message) + 1)..Len(r.msg) :
                                name = "next_label"}
    /\ ret' = <<>>
    /\ wire' = <<>>
    /\ UNCHANGED <<constructed, mode, socket, defaults, convert_to_ascii,
                   bmpvars>>

\* A call that raises before it emits anything.
Reject(name, a, err) ==
  /\ Observe(name, a, err)
  /\ UNCHANGED <<session, convert_to_ascii, bmpvars, nops>>

\* Zebra.field_origin
FieldOrigin(p) ==
  /\ constructed
  /\ Emit("field_origin", [pos |-> p], <<FieldOriginLine(OrDefault(p, pos))>>)

\* The orientation check of write_text and write_text_block.
OrientationOk(orientation) == orientation \in ALL_ORIENTATIONS

\* The lines write_text emits, in order.
WriteTextLines(c) ==
  << FieldOriginLine(OrDefault(c.pos, pos)),
     FontLine(OrDefault(c.font, font), c.orientation,
              OrDefault(c.char_size, char_size)),
     FieldDataLine(AsciiText(c.text, c.convert_to_ascii)),
     FieldSeparatorLine >>

\* Zebra.write_text
WriteText(c) ==
  /\ constructed
  /\ IF ~OrientationOk(c.orientation)
     THEN Reject("write_text", c, "ValueError")
     ELSE Emit("write_text", c, WriteTextLines(c))

\* The lines of a block whose formatting line follows the field data.
WriteTextBlockLines_BlockLast(c) ==
  << FieldOriginLine(OrDefault(c.pos, pos)),
     FontLine(OrDefault(c.font, font), c.orientation,
              OrDefault(c.char_size, char_size)),
     FieldDataLine(AsciiText(c.text, c.convert_to_ascii)),
     FieldBlockLine(c.width, c.max_lines, c.add_line_space, c.justification,
                    c.hanging_indent),
     FieldSeparatorLine >>

\* The lines write_text_block emits, in order.
WriteTextBlockLines(c) ==
  << FieldOriginLine(OrDefault(c.pos, pos)),
     FontLine(OrDefault(c.font, font), c.orientation,
              OrDefault(c.char_size, char_size)),
     FieldBlockLine(c.width, c.max_lines, c.add_line_space, c.justification,
                    c.hanging_indent),
     FieldDataLine(AsciiText(c.text, c.convert_to_ascii)),
     FieldSeparatorLine >>

\* Zebra.write_text_block
WriteTextBlock(c) ==
  /\ constructed
  /\ IF ~OrientationOk(c.orientation)
     THEN Reject("write_text_block", c, "ValueError")
     ELSE Emit("write_text_block", c, WriteTextBlockLines(c))

\* Zebra.draw_box
DrawBox(c) ==
  /\ constructed
  /\ Emit("draw_box", c,
          << FieldOriginLine(OrDefault(c.pos, pos)),
             BoxLine(c.width, c.height, c.thickness, c.colour, c.rounding),
             FieldSeparatorLine >>)

\* Zebra.next_label
NextLabel ==
  /\ constructed
  /\ Emit("next_label", <<>>, <<NextLabelLine>>)

(***************************************************************************)
(* Serialisation, retrieval, transmission.                                 *)
(***************************************************************************)
\* A zpl that hands the buffer over and empties it.
ReadZpl_Clears ==
  /\ constructed
  /\ op' = "zpl"
  /\ args' = <<>>
  /\ raised' = "none"
  /\ ret' = zpl(current_message)
  /\ wire' = <<>>
  /\ current_message' = <<>>
  /\ nops' = 0
  /\ marks' = {}
  /\ UNCHANGED <<constructed, mode, socket, defaults, convert_to_ascii, bmpvars>>

\* Reading the property Zebra.zpl.
ReadZpl ==
  /\ constructed
  /\ op' = "zpl"
  /\ args' = <<>>
  /\ raised' = "none"
  /\ ret' = zpl(current_message)
  /\ wire' = <<>>
  /\ UNCHANGED <<session, convert_to_ascii, bmpvars, nops, marks>>

GetClears_Never(clear_message) == FALSE
\* Whether get_message empties the buffer.
GetClears(clear_message) == clear_message

\* Zebra.get_message
GetMessage(clear_message) ==
  /\ constructed
  /\ op' = "get_message"
  /\ args' = [clear_message |-> clear_message]
  /\ raised' = "none"
  /\ ret' = zpl(current_message)
  /\ wire' = <<>>
  /\ current_message' = IF GetClears(clear_message) THEN <<>> ELSE current_message
  /\ nops' = IF GetClears(clear_message) THEN 0 ELSE nops
  /\ marks' = IF GetClears(clear_message) THEN {} ELSE marks
  /\ UNCHANGED <<constructed, mode, socket, defaults, convert_to_ascii, bmpvars>>

\* The write loop of Zebra._send in socket mode: total_sent after the loop,
\* and whether a write returned zero with data remaining.
RECURSIVE SendLoop(_, _, _)
SendLoop(length, total_sent, script) ==
  IF total_sent >= length THEN [total_sent |-> total_sent, broken |-> FALSE]
  ELSE LET remaining == length - total_sent
           sent == IF script = <<>> THEN remaining
                   ELSE IF Head(script) < remaining THEN Head(script)
                   ELSE remaining
       IN IF sent = 0 THEN [total_sent |-> total_sent, broken |-> TRUE]
          ELSE SendLoop(length, total_sent + sent,
                        IF script = <<>> THEN <<>> ELSE Tail(script))

\* Zebra._send: the exception it raises ("none" on success) and the bytes it
\* wrote.  override says whether a host or port override is given, script
\* is the socket's behaviour, http_error whether the HTTP response carries
\* an error.
SendOutcome(message, override, script, http_error) ==
  IF mode = MODE_SOCKET
  THEN IF override THEN [raised |-> "Exception: override", wire |-> <<>>]
       ELSE IF socket = "None"
            THEN [raised |-> "Exception: not connected", wire |-> <<>>]
       ELSE IF socket = "closed"
            THEN [raised |-> "socket.error", wire |-> <<>>]
       ELSE LET r == SendLoop(Len(message), 0, script) IN
              [raised |-> IF r.broken THEN "Exception: connection broken"
                          ELSE "none",
               wire |-> SubSeq(message, 1, r.total_sent)]
  ELSE IF mode = MODE_HTTP \/ mode = MODE_HTTPS
  THEN [raised |-> IF http_error THEN "Exception: http" ELSE "none",
        wire |-> message]
  ELSE [raised |-> "ValueError", wire |-> <<>>]

SendClears_BeforeSend(clear_message, err) == clear_message
\* Whether send_message empties the buffer, given the exception _send raised.
SendClears(clear_message, err) == clear_message /\ err = "none"

\* Zebra.send_message
SendMessage(clear_message, override, script, http_error) ==
  \E message \in {zpl(current_message)} :
  \E r \in {SendOutcome(message, override, script, http_error)} :
     /\ constructed
     /\ op' = "send_message"
     /\ args' = [clear_message |-> clear_message, override |-> override]
     /\ raised' = r.raised
     /\ ret' = message
     /\ wire' = r.wire
     /\ current_message' = IF SendClears(clear_message, r.raised) THEN <<>>
                           ELSE current_message
     /\ nops' = IF SendClears(clear_message, r.raised) THEN 0 ELSE nops
     /\ marks' = IF SendClears(clear_message, r.raised) THEN {} ELSE marks
     /\ UNCHANGED <<constructed, mode, socket, defaults, convert_to_ascii,
                    bmpvars>>

\* Document building, serialisation and retrieval on a default session.
Next ==
  \/ /\ nops < MaxOps
     /\ \E c \in WriteTextCalls : WriteText(c)
  \/ /\ nops < MaxOps
     /\ \E c \in WriteTextBlockCalls : WriteTextBlock(c)
  \/ /\ nops < MaxOps
     /\ \E c \in DrawBoxCalls : DrawBox(c)
  \/ /\ nops < MaxOps
     /\ NextLabel
  \/ ReadZpl
  \/ \E c \in BOOLEAN : GetMessage(c)

Spec == Init /\ [][Next]_vars

\* The calls the session specification draws documents from.
SessionTextCalls ==
  {c \in WriteTextCalls : c.text = TextAccent /\ c.pos = None /\ c.font = None}

\* Session defaults, connection and transmission, over small documents.
NextSession ==
  \/ \E v \in FontValues : SetFont(v)
  \/ \E v \in PosValues : SetPos(v)
  \/ \E c \in BOOLEAN : Connect(c)
  \/ Disconnect
  \/ /\ nops < MaxSessionOps
     /\ \E c \in SessionTextCalls : WriteText(c)
  \/ /\ nops < MaxSessionOps
     /\ NextLabel
  \/ ReadZpl
  \/ \E c \in BOOLEAN : GetMessage(c)
  \/ \E c \in BOOLEAN, e \in SendCases :
       SendMessage(c, e.override, e.script, e.http_error)

SpecSession == InitSession /\ [][NextSession]_vars


(***************************************************************************)
(* The bitmap decoder, ZebraBitmap.__init__.                               *)
(***************************************************************************)
Min(a, b) == IF a < b THEN a ELSE b

\* data[a:b] for 0 <= a, with the clamping of a Python slice.
Slice(data, a, b) == SubSeq(data, a + 1, Min(b, Len(data)))

\* unpack of a little-endian unsigned field.
RECURSIVE Unpack(_)
Unpack(bytes) == IF bytes = <<>> THEN 0 ELSE Head(bytes) + 256 * Unpack(Tail(bytes))

\* The header fields read after the magic, in order, with their widths:
\* read_int reads 4 bytes, read_short 2.
HeaderFields ==
  << <<"size", 4>>, <<"skip1", 2>>, <<"skip2", 2>>, <<"pixel_offset", 4>>,
     <<"dib_header_size", 4>>, <<"width", 4>>, <<"height", 4>>,
     <<"colour_planes", 2>>, <<"bpp", 2>>, <<"compression_type", 4>>,
     <<"image_size", 4>>, <<"h_res", 4>>, <<"v_res", 4>>,
     <<"num_colours", 4>>, <<"num_important_colours", 4>> >>

\* The width check.
WidthOk_Mod8(width) == width % 8 = 0
WidthOk(width) == width % 32 = 0

\* The check made right after a field is read: the exception, or "none".
FieldError(name, v) ==
  IF name = "dib_header_size" /\ v < 40 THEN "Exception: header size"
  ELSE IF name = "width" /\ ~WidthOk(v) THEN "Exception: width"
  ELSE IF name = "colour_planes" /\ v # 1 THEN "Exception: colour_planes"
  ELSE IF name = "bpp" /\ v # 1 THEN "Exception: monochrome"
  ELSE IF name = "compression_type" /\ v # 0 THEN "Exception: compression"
  ELSE "none"

\* The sequential reads of the header from file position p, field i on:
\* the exception raised, or the fields read.
RECURSIVE ReadHeader(_, _, _, _)
ReadHeader(file, p, i, hdr) ==
  IF i > Len(HeaderFields) THEN [raised |-> "none", hdr |-> hdr]
  ELSE LET name == HeaderFields[i][1]
           n == HeaderFields[i][2]
       IN IF p + n > Len(file) THEN [raised |-> "struct.error", hdr |-> hdr]
          ELSE LET v == Unpack(SubSeq(file, p + 1, p + n))
                   e == FieldError(name, v)
               IN IF e # "none" THEN [raised |-> e, hdr |-> hdr]
                  ELSE ReadHeader(file, p + n, i + 1, (name :> v) @@ hdr)

\* binascii.hexlify(...).upper().decode(ascii)
HexDigit(n) == IF n < 10 THEN 48 + n ELSE 97 + (n - 10)
Upper(c) == IF c >= 97 /\ c <= 122 THEN c - 32 ELSE c
HexByte(b) == <<Upper(HexDigit(b \div 16)), Upper(HexDigit(b % 16))>>
Hexlify(bytes) == Flatten([i \in 1..Len(bytes) |-> HexByte(bytes[i])])

\* range(height - 1, -1, -1): the rows in the order the loop visits them.
RowOrder_Forward(height) == [i \in 1..height |-> i - 1]
RowOrder(height) == [i \in 1..height |-> height - i]

\* The hex text of one row.
RowHex(pixel_data, row, width) ==
  LET start == (row * width) \div 8
      end == start + width \div 8
  IN Hexlify(Slice(pixel_data, start, end))

\* ascii_data after the row loop.
AsciiData(pixel_data, width, height) ==
  Flatten([i \in 1..height |-> RowHex(pixel_data, RowOrder(height)[i], width)])

MagicBM == S(<<"B", "M">>)
UploadPrefix == S(<<"~", "D", "G", "R", ":">>)
GrfSuffix == S(<<".", "G", "R", "F", ",">>)

\* upload_cmd
UploadCmd(zebra_handle, width, height, ascii_data) ==
  UploadPrefix \o zebra_handle \o GrfSuffix \o Dec((width * height) \div 8)
    \o Comma \o Dec(width \div 8) \o Comma \o ascii_data

\* ZebraBitmap(filename, zebra_handle): the object, or the exception.
Decode(file, zebra_handle) ==
  IF Slice(file, 0, 2) # MagicBM
  THEN [state |-> "error", raised |-> "Exception: header"]
  ELSE LET r == ReadHeader(file, 2, 1, <<>>) IN
    IF r.raised # "none" THEN [state |-> "error", raised |-> r.raised]
    ELSE LET width == r.hdr["width"]
             height == r.hdr["height"]
             pixel_offset == r.hdr["pixel_offset"]
             pixel_data == Slice(file, pixel_offset,
                                 pixel_offset + (width * height) \div 8)
         IN [state |-> "ok",
             zebra_handle |-> zebra_handle,
             upload_cmd |-> UploadCmd(zebra_handle, width, height,
                                      AsciiData(pixel_data, width, height))]

\* ZebraBitmap.__init__
ZebraBitmapInit ==
  /\ bmp.state = "none"
  /\ bmp_file # <<>>
  /\ bmp' = Decode(bmp_file, bmp_handle)
  /\ op' = "ZebraBitmap"
  /\ args' = <<>>
  /\ raised' = IF bmp'.state = "error" THEN bmp'.raised ELSE "none"
  /\ ret' = <<>>
  /\ wire' = <<>>
  /\ UNCHANGED <<session, convert_to_ascii, bmp_file, bmp_handle, nops, marks>>


(***************************************************************************)
(* Bitmap files explored.                                                  *)
(***************************************************************************)
\* A little-endian unsigned field of k bytes.
RECURSIVE Pack(_, _)
Pack(n, k) == IF k = 0 THEN <<>> ELSE <<n % 256>> \o Pack(n \div 256, k - 1)

\* Pixel bytes: consecutive bytes differ, and so do consecutive rows.
PixelBytes(seed, n) == [i \in 1..n |-> (83 * seed + 59 * (i - 1)) % 256]

\* A file with the 14-byte file header, the 40-byte info header, filler up
\* to the pixel offset and the pixel data; keep says how much of it exists.
BmpFile(in) ==
  LET n == (in.width * in.height) \div 8
      header == in.magic \o Pack(in.pixel_offset + n, 4) \o Pack(0, 2)
                  \o Pack(0, 2) \o Pack(in.pixel_offset, 4)
                  \o Pack(in.dib_header_size, 4) \o Pack(in.width, 4)
                  \o Pack(in.height, 4) \o Pack(in.colour_planes, 2)
                  \o Pack(in.bpp, 2) \o Pack(in.compression_type, 4)
                  \o Pack(n, 4) \o Pack(2835, 4) \o Pack(2835, 4)
                  \o Pack(2, 4) \o Pack(2, 4)
      filler == [i \in 1..(in.pixel_offset - Len(header)) |-> 255]
      whole == header \o filler \o PixelBytes(in.seed, n)
  IN IF in.keep = "all" THEN whole
     ELSE IF in.keep = "short" THEN SubSeq(whole, 1, Len(whole) - 1)
     ELSE SubSeq(whole, 1, 20)

BmpInputs ==
  [ magic : {MagicBM, S(<<"B", "A">>)},
    pixel_offset : {54, 62},
    dib_header_size : {12, 40},
    width : {32 * k : k \in 0..MaxWidthWords} \cup {33, 40},
    height : 0..MaxHeight,
    colour_planes : {1, 2},
    bpp : {1, 24},
    compression_type : {0, 1},
    seed : {1, 2},
    keep : {"all", "short", "cut"} ]

\* A bitmap file on disk, not yet decoded.
InitBmp ==
  /\ Constructed(MODE_SOCKET)
  /\ \E in \in BmpInputs : bmp_file = BmpFile(in)
  /\ bmp_handle = S(<<"I", "M", "A", "G", "E">>)
  /\ bmp = NoBitmap

NextBmp == ZebraBitmapInit

SpecBmp == InitBmp /\ [][NextBmp]_vars


(***************************************************************************)
(* Properties.                                                             *)
(***************************************************************************)
\* The wire format of an empty document.
EmptyDocument == S(<<"^", "X", "A", "\n", "\n", "\n", "\n", "^", "X", "Z">>)

\* Where line i of lines starts in the serialised document (0-based): after
\* the 5-byte start marker, the earlier lines and one newline after each.
RECURSIVE LineStart(_, _)
LineStart(lines, i) ==
  IF i = 1 THEN 5 ELSE LineStart(lines, i - 1) + Len(lines[i - 1]) + 1

\* doc is the wire form of lines: start marker, each line in its place with
\* a single newline between neighbours, end marker, and nothing else.
WireStart == S(<<"^", "X", "A", "\n", "\n">>)
WireEnd == S(<<"\n", "\n", "^", "X", "Z">>)
IsSerialization(doc, lines) ==
  LET n == Len(lines)
      body == IF n = 0 THEN 5 ELSE LineStart(lines, n) + Len(lines[n])
  IN /\ Len(doc) = body + 5
     /\ SubSeq(doc, 1, 5) = WireStart
     /\ SubSeq(doc, body + 1, body + 5) = WireEnd
     /\ \A i \in 1..n :
          SubSeq(doc, LineStart(lines, i) + 1, LineStart(lines, i) + Len(lines[i]))
            = lines[i]
     /\ \A i \in 1..(n - 1) : doc[LineStart(lines, i + 1)] = 10

\* C1: the document read from Zebra.zpl is exactly '^XA\n\n', the pending
\* lines joined with a single '\n', and '\n\n^XZ'; with no pending line it
\* is exactly '^XA\n\n\n\n^XZ'.
C1_ZplForm ==
  op = "zpl" =>
    /\ IsSerialization(ret, current_message)
    /\ current_message = <<>> => ret = EmptyDocument

\* A document of several lines, one of them a next-label line, was read.
C1_Witness ==
  /\ op = "zpl"
  /\ Len(current_message) >= 5
  /\ marks # {}
  /\ IsSerialization(ret, current_message)

\* C2: reading Zebra.zpl changes neither the pending lines nor the cursor,
\* the character size or the default font, and a second read right after
\* the first returns the same bytes.
C2_ZplReadOnly ==
  [][op' = "zpl" =>
       /\ current_message' = current_message
       /\ pos' = pos
       /\ char_size' = char_size
       /\ font' = font
       /\ op = "zpl" => ret' = ret]_vars

\* The document was read with lines pending and non-default cursor and font.
C2_Witness ==
  /\ op = "zpl"
  /\ current_message # <<>>
  /\ pos # <<0, 0>>
  /\ font = S(<<"A">>)
  /\ ret # EmptyDocument

\* The call just made returned or transmitted the document successfully.
Delivered(o, r) == o = "get_message" \/ (o = "send_message" /\ r = "none")

\* C3: get_message and a successful send_message hand over the wire form of
\* the pending lines and leave the buffer empty when clear_message is true,
\* unchanged when it is false; so a get_message right after a clearing
\* get_message, and every get_message on an empty buffer, returns the empty
\* document.
C3_ClearAfterDelivery ==
  [][Delivered(op', raised') =>
       /\ IsSerialization(ret', current_message)
       /\ current_message' = IF args'.clear_message THEN <<>> ELSE current_message
       /\ current_message = <<>> => ret' = EmptyDocument
       /\ (op = "get_message" /\ args.clear_message /\ op' = "get_message")
            => ret' = EmptyDocument]_vars

\* A clearing get_message returned a non-empty document and left none.
C3_Witness ==
  /\ op = "get_message"
  /\ args.clear_message
  /\ current_message = <<>>
  /\ ret # EmptyDocument
  /\ Len(ret) > Len(EmptyDocument)

\* C4: a send_message that fails leaves the pending lines as they were, so
\* the document a retry hands to the transport is the same bytes.
C4_FailedSendKeepsBuffer ==
  [][(op' = "send_message" /\ raised' # "none") =>
       /\ current_message' = current_message
       /\ IsSerialization(ret', current_message')
       /\ (op = "send_message" /\ raised # "none") => ret' = ret]_vars

\* A send broke off after a partial write and the lines are still pending.
C4_Witness ==
  /\ op = "send_message"
  /\ raised = "Exception: connection broken"
  /\ args.clear_message
  /\ wire # <<>>
  /\ Len(wire) < Len(ret)
  /\ current_message # <<>>


\* line begins with prefix.
StartsWith(line, prefix) ==
  Len(line) >= Len(prefix) /\ SubSeq(line, 1, Len(prefix)) = prefix

\* The positions at which pat occurs in doc.
Occurrences(doc, pat) ==
  {i \in 1..(Len(doc) - Len(pat) + 1) : SubSeq(doc, i, i + Len(pat) - 1) = pat}

\* after is before with n lines appended.
Appended(before, after, n) ==
  Len(after) = Len(before) + n /\ SubSeq(after, 1, Len(before)) = before

DirectiveFO == S(<<"^", "F", "O">>)
DirectiveA == S(<<"^", "A">>)
DirectiveFD == S(<<"^", "F", "D">>)
DirectiveFS == S(<<"^", "F", "S">>)
SupportedOrientations == {S(<<"N">>), S(<<"R">>), S(<<"I">>), S(<<"B">>)}

\* C5: write_text is all or nothing: every call either appends exactly the
\* four lines ^FO, ^A, ^FD, ^FS in that order, or raises and leaves the
\* pending lines unchanged; an orientation outside N, R, I, B raises.
C5_WriteTextAtomic ==
  [][op' = "write_text" =>
       /\ \/ /\ raised' = "none"
             /\ Appended(current_message, current_message', 4)
             /\ LET n == Len(current_message) IN
                  /\ StartsWith(current_message'[n + 1], DirectiveFO)
                  /\ StartsWith(current_message'[n + 2], DirectiveA)
                  /\ StartsWith(current_message'[n + 3], DirectiveFD)
                  /\ current_message'[n + 4] = DirectiveFS
          \/ /\ raised' # "none"
             /\ current_message' = current_message
       /\ args'.orientation \notin SupportedOrientations => raised' # "none"]_vars

\* C6: write_text and write_text_block with a per-call font whose length is
\* not 1 raise and leave the pending lines unchanged.
C6_FontLengthChecked ==
  [][(/\ op' \in {"write_text", "write_text_block"}
      /\ args'.font # None
      /\ Len(args'.font[1]) # 1) =>
       /\ raised' # "none"
       /\ current_message' = current_message]_vars

\* C7: write_text_block with a justification other than L, C, R, J raises
\* and appends no line.
C7_JustificationChecked ==
  [][(/\ op' = "write_text_block"
      /\ args'.justification
           \notin {S(<<"L">>), S(<<"C">>), S(<<"R">>), S(<<"J">>)}) =>
       /\ raised' # "none"
       /\ current_message' = current_message]_vars

\* The batch-join marker of the wire format.
BatchJoinMarker ==
  S(<<"\n", "\n", "^", "X", "Z", "\n", "^", "X", "A", "\n", "\n">>)
EndDirective == S(<<"^", "X", "Z">>)

\* The pending lines are label A, the line of one next_label call, label B.
OneNextLabel == Cardinality(marks) = 1
MarkAt == CHOOSE k \in marks : TRUE
LabelA == SubSeq(current_message, 1, MarkAt - 1)
LabelB == SubSeq(current_message, MarkAt + 1, Len(current_message))
TwoLabels == op = "zpl" /\ OneNextLabel /\ LabelA # <<>> /\ LabelB # <<>>

\* No line of either label carries an end-of-document directive of its own.
LabelsPlain ==
  \A i \in (1..Len(current_message)) \ marks :
    Occurrences(current_message[i], EndDirective) = {}

\* C8 as stated: with labels A and B joined by one next_label, the document
\* is the start marker, A's lines, the marker sequence, B's lines and the
\* end marker, the marker sequence being all that lies between A's last
\* line and B's first line and occurring exactly once.
C8_MarkerAloneBetweenLabels ==
  TwoLabels =>
    /\ ret = WireStart \o Join(NL, LabelA) \o BatchJoinMarker
               \o Join(NL, LabelB) \o WireEnd
    /\ Cardinality(Occurrences(ret, BatchJoinMarker)) = 1

\* C8, amended: next_label appends the marker sequence as a line of its own,
\* so the document is the start marker, the lines of A, the marker and the
\* lines of B joined with single newlines, and the end marker; between A's
\* last line and B's first line lies a newline, the marker sequence and a
\* newline; the marker sequence occurs exactly once, there, whenever no line
\* of A or B contains '^XZ'.
C8_BatchJoin ==
  (op = "zpl" /\ OneNextLabel) =>
    /\ ret = WireStart
               \o Join(NL, LabelA \o <<BatchJoinMarker>> \o LabelB)
               \o WireEnd
    /\ (LabelA # <<>> /\ LabelB # <<>>) =>
         /\ ret = WireStart \o Join(NL, LabelA) \o NL \o BatchJoinMarker
                    \o NL \o Join(NL, LabelB) \o WireEnd
         /\ LabelsPlain =>
              Occurrences(ret, BatchJoinMarker)
                = {Len(WireStart) + Len(Join(NL, LabelA)) + 2}

\* Two non-empty labels without '^XZ' in their lines were serialised.
C8_Witness ==
  /\ TwoLabels
  /\ LabelsPlain
  /\ Cardinality(Occurrences(ret, BatchJoinMarker)) = 1


\* The unsigned little-endian field of n bytes at offset off of the file.
RECURSIVE FieldAt(_, _)
FieldAt(off, n) ==
  IF n = 0 THEN 0 ELSE bmp_file[off + 1] + 256 * FieldAt(off + 1, n - 1)

\* The file holds the n bytes at offset off.
Present(off, n) == Len(bmp_file) >= off + n

\* The header fields of the file, by their offsets in the format.
FileMagic == SubSeq(bmp_file, 1, Min(2, Len(bmp_file)))
FilePixelOffset == FieldAt(10, 4)
FileHeaderSize == FieldAt(14, 4)
FileWidth == FieldAt(18, 4)
FileHeight == FieldAt(22, 4)
FilePlanes == FieldAt(26, 2)
FileBitsPerPixel == FieldAt(28, 2)
FileCompression == FieldAt(30, 4)
FilePixelBytes == (FileWidth * FileHeight) \div 8

\* One of the six structural preconditions is violated by the file.
PreconditionViolated ==
  \/ FileMagic # S(<<"B", "M">>)
  \/ Present(14, 4) /\ FileHeaderSize < 40
  \/ Present(18, 4) /\ FileWidth % 32 # 0
  \/ Present(26, 2) /\ FilePlanes # 1
  \/ Present(28, 2) /\ FileBitsPerPixel # 1
  \/ Present(30, 4) /\ FileCompression # 0

\* The file has its whole 54-byte header, meets the six preconditions and
\* holds the pixel data its header announces.
WellFormed ==
  /\ Present(0, 54)
  /\ ~PreconditionViolated
  /\ Present(FilePixelOffset, FilePixelBytes)

\* C9: decoding raises and yields no bitmap object, so no upload command,
\* when the magic is not BM, the info header is shorter than 40, the width
\* is not a multiple of 32, the planes are not 1, the depth is not 1 or the
\* compression is not 0; it succeeds when all six hold and the file holds
\* the pixel data.
C9_DecodeValidates ==
  bmp.state # "none" =>
    /\ PreconditionViolated =>
         /\ bmp.state = "error"
         /\ raised # "none"
         /\ "upload_cmd" \notin DOMAIN bmp
    /\ WellFormed =>
         /\ bmp.state = "ok"
         /\ raised = "none"
         /\ "upload_cmd" \in DOMAIN bmp

\* A file whose only fault is a width of 33 was refused.
C9_Witness ==
  /\ bmp.state = "error"
  /\ Present(0, 54)
  /\ FileWidth = 33
  /\ FileMagic = S(<<"B", "M">>)
  /\ FileHeaderSize = 40
  /\ FilePlanes = 1
  /\ FileBitsPerPixel = 1
  /\ FileCompression = 0
  /\ "upload_cmd" \notin DOMAIN bmp

\* The hex payload of an upload command: what follows its last comma.
Payload(cmd) ==
  LET last == CHOOSE i \in 1..Len(cmd) :
                cmd[i] = 44 /\ \A j \in (i + 1)..Len(cmd) : cmd[j] # 44
  IN SubSeq(cmd, last + 1, Len(cmd))

HexChars ==
  S(<<"0", "1", "2", "3", "4", "5", "6", "7", "8", "9", "A", "B", "C", "D",
      "E", "F">>)

\* C10: the payload lists the stored rows last-stored first: byte j of
\* stored row k appears as two uppercase hex characters at byte position
\* (h-1-k) * (width/8) + j of the payload, and the payload holds nothing
\* else.
C10_RowsReversed ==
  (bmp.state = "ok" /\ WellFormed) =>
    LET rb == FileWidth \div 8
        payload == Payload(bmp.upload_cmd)
    IN /\ Len(payload) = 2 * FileHeight * rb
       /\ \A k \in 0..(FileHeight - 1), j \in 0..(rb - 1) :
            LET b == bmp_file[FilePixelOffset + k * rb + j + 1]
                at == 2 * ((FileHeight - 1 - k) * rb + j)
            IN /\ payload[at + 1] = HexChars[(b \div 16) + 1]
               /\ payload[at + 2] = HexChars[(b % 16) + 1]

\* A bitmap of several rows of several bytes was decoded.
C10_Witness ==
  /\ bmp.state = "ok"
  /\ WellFormed
  /\ FileHeight >= 2
  /\ FileWidth >= 64
  /\ Len(Payload(bmp.upload_cmd)) = 2 * FilePixelBytes

\* The text an upload command starts with, up to the handle.
UploadHead == S(<<"~", "D", "G", "R", ":">>)
UploadExt == S(<<".", "G", "R", "F">>)

\* C11: the upload command of a decoded bitmap is the handle, the total
\* byte count width*height/8, the bytes per row width/8 and the hex payload,
\* and the payload is exactly 2*(width*height/8) hex characters, also when
\* the file holds fewer bytes after the pixel offset than that.
C11_PayloadMatchesCount ==
  bmp.state = "ok" =>
    LET payload == Payload(bmp.upload_cmd) IN
      /\ bmp.upload_cmd = UploadHead \o bmp_handle \o UploadExt \o S(<<",">>)
                            \o Dec(FilePixelBytes) \o S(<<",">>)
                            \o Dec(FileWidth \div 8) \o S(<<",">>) \o payload
      /\ \A i \in 1..Len(payload) : \E k \in 1..16 : payload[i] = HexChars[k]
      /\ Len(payload) = 2 * FilePixelBytes

(***************************************************************************)
(* Field, layout, font, encoding and bitmap operations.                    *)
(***************************************************************************)
CIPrefix == S(<<"^", "C", "I">>)
CWTPrefix == S(<<"^", "C", "W", "T", ",">>)
Colon == S(<<":">>)
XGPrefix == S(<<"^", "X", "G", "d", ":">>)
PWPrefix == S(<<"^", "P", "W">>)
LLPrefix == S(<<"^", "L", "L">>)
POPrefix == S(<<"^", "P", "O">>)
PMPrefix == S(<<"^", "P", "M">>)
LHPrefix == S(<<"^", "L", "H">>)
Swiss721Filename ==
  S(<<"T", "T", "0", "0", "0", "3", "M", "_", ".", "F", "N", "T">>)

\* The encodings '0'..'17', '24', '26'..'31', '33'..'36'.
ALL_FONT_ENCODINGS ==
  {Dec(n) : n \in (0..17) \cup {24} \cup (26..31) \cup (33..36)}

\* The lines of the individual directives.
FontEncodingLine(encoding) == CIPrefix \o encoding
LoadFontLine(identifier, font_filename) ==
  CWTPrefix \o identifier \o Colon \o font_filename
RasterLine(zebra_handle, scale) ==
  XGPrefix \o zebra_handle \o GrfSuffix \o Dec(scale[1]) \o Comma
    \o Dec(scale[2])
PrintWidthLine(print_width) == PWPrefix \o Dec(print_width)
LabelLengthLine(label_length) == LLPrefix \o Dec(label_length)
InvertedLine(inverted) == POPrefix \o (IF inverted THEN S(<<"I">>) ELSE S(<<"N">>))
MirroredLine(mirrored) == PMPrefix \o (IF mirrored THEN S(<<"Y">>) ELSE S(<<"N">>))
LabelHomeLine(x, y) == LHPrefix \o Dec(x) \o Comma \o Dec(y)

\* A field_separator that starts the buffer afresh.
FieldSeparator_Restarts ==
  /\ constructed
  /\ Observe("field_separator", <<>>, "none")
  /\ current_message' = <<Utf8(FieldSeparatorLine)>>
  /\ nops' = nops + 1
  /\ UNCHANGED <<constructed, mode, socket, defaults, convert_to_ascii, bmpvars>>

\* Zebra.field_separator
FieldSeparator ==
  /\ constructed
  /\ Emit("field_separator", <<>>, <<FieldSeparatorLine>>)

\* Zebra.change_font_encoding
ChangeFontEncoding(encoding) ==
  /\ constructed
  /\ IF encoding \notin ALL_FONT_ENCODINGS
     THEN Reject("change_font_encoding", [encoding |-> encoding], "ValueError")
     ELSE Emit("change_font_encoding", [encoding |-> encoding],
               <<FontEncodingLine(encoding)>>)

\* Zebra.load_font
LoadFont(identifier, font_filename) ==
  /\ constructed
  /\ IF Len(identifier) # 1
     THEN Reject("load_font",
                 [identifier |-> identifier, font_filename |-> font_filename],
                 "ValueError")
     ELSE Emit("load_font",
               [identifier |-> identifier, font_filename |-> font_filename],
               <<LoadFontLine(identifier, font_filename)>>)

\* Zebra.load_swiss_721_font
LoadSwiss721Font(identifier) == LoadFont(identifier, Swiss721Filename)

\* Zebra.draw_horizontal_line
DrawHorizontalLine(c) ==
  DrawBox([width |-> c.length, height |-> 0, thickness |-> c.thickness,
           colour |-> c.colour, rounding |-> 0, pos |-> c.pos])

\* Zebra.draw_vertical_line
DrawVerticalLine(c) ==
  DrawBox([width |-> 0, height |-> c.length, thickness |-> c.thickness,
           colour |-> c.colour, rounding |-> 0, pos |-> c.pos])

\* Zebra.upload_bitmap, handed the decoded bitmap.
UploadBitmap ==
  /\ constructed
  /\ bmp.state = "ok"
  /\ Emit("upload_bitmap", <<>>, <<bmp.upload_cmd>>)

\* The lines of a render_bitmap that does not close the field.
RenderBitmapLines_NoSeparator(c) ==
  << FieldOriginLine(OrDefault(c.pos, pos)),
     RasterLine(bmp.zebra_handle, c.scale) >>

\* The lines render_bitmap emits, in order.
RenderBitmapLines(c) ==
  << FieldOriginLine(OrDefault(c.pos, pos)),
     RasterLine(bmp.zebra_handle, c.scale),
     FieldSeparatorLine >>

\* Zebra.render_bitmap, handed the decoded bitmap.
RenderBitmap(c) ==
  /\ constructed
  /\ bmp.state = "ok"
  /\ Emit("render_bitmap", c, RenderBitmapLines(c))

\* Zebra.set_print_width
SetPrintWidth(print_width) ==
  /\ constructed
  /\ Emit("set_print_width", [print_width |-> print_width],
          <<PrintWidthLine(print_width)>>)

\* Zebra.set_label_length
SetLabelLength(label_length) ==
  /\ constructed
  /\ Emit("set_label_length", [label_length |-> label_length],
          <<LabelLengthLine(label_length)>>)

\* Zebra.set_inverted
SetInverted(inverted) ==
  /\ constructed
  /\ Emit("set_inverted", [inverted |-> inverted], <<InvertedLine(inverted)>>)

\* Zebra.set_mirrored
SetMirrored(mirrored) ==
  /\ constructed
  /\ Emit("set_mirrored", [mirrored |-> mirrored], <<MirroredLine(mirrored)>>)

\* Zebra.set_label_home
SetLabelHome(x, y) ==
  /\ constructed
  /\ Emit("set_label_home", [x |-> x, y |-> y], <<LabelHomeLine(x, y)>>)

\* The calls the drawing specifications explore.
FieldOriginCalls == {None, Some(<<3, 12>>)}
EncodingValues == {S(<<"2", "8">>), S(<<"9", "9">>)}
IdentifierValues == {S(<<"Z">>), S(<<"Z", "Z">>)}
LineCalls ==
  { [length |-> 200, thickness |-> 1, colour |-> S(<<"B">>), pos |-> None],
    [length |-> 200, thickness |-> 2, colour |-> S(<<"B">>),
     pos |-> Some(<<3, 12>>)] }
RenderBitmapCalls ==
  { [scale |-> <<1, 1>>, pos |-> None],
    [scale |-> <<2, 3>>, pos |-> Some(<<3, 12>>)] }
DrawTextCalls ==
  {c \in WriteTextCalls :
     c.text = TextAccent /\ c.orientation \in ALL_ORIENTATIONS
       /\ (c.font = None \/ c.char_size # None)}
DrawTextBlockCalls ==
  {c \in WriteTextBlockCalls :
     c.orientation \in ALL_ORIENTATIONS /\ c.justification # S(<<"X">>)
       /\ (c.font = None \/ c.char_size # None)}
DrawSendCases == {e \in SendCases : ~e.override /\ e.script = <<>>}

\* The bitmap file the drawing specifications decode: 32x2, rows differing.
DrawBmpFile ==
  BmpFile([magic |-> MagicBM, pixel_offset |-> 54, dib_header_size |-> 40,
           width |-> 32, height |-> 2, colour_planes |-> 1, bpp |-> 1,
           compression_type |-> 0, seed |-> 1, keep |-> "all"])

\* Zebra(host, mode=MODE_HTTP, http_endpoint=...) and a decoded bitmap.
InitDraw ==
  /\ Constructed(MODE_HTTP)
  /\ bmp_file = DrawBmpFile
  /\ bmp_handle = S(<<"L", "O", "G", "O">>)
  /\ bmp = Decode(bmp_file, bmp_handle)

\* The operations that take an optional position, the cursor, retrieval and
\* sending.
NextDraw ==
  \/ /\ nops < MaxDrawOps
     /\ \E p \in FieldOriginCalls : FieldOrigin(p)
  \/ /\ nops < MaxDrawOps
     /\ \E c \in DrawTextCalls : WriteText(c)
  \/ /\ nops < MaxDrawOps
     /\ \E c \in DrawTextBlockCalls : WriteTextBlock(c)
  \/ /\ nops < MaxDrawOps
     /\ \E c \in DrawBoxCalls : DrawBox(c)
  \/ /\ nops < MaxDrawOps
     /\ \E c \in LineCalls : DrawHorizontalLine(c)
  \/ /\ nops < MaxDrawOps
     /\ \E c \in LineCalls : DrawVerticalLine(c)
  \/ /\ nops < MaxDrawOps
     /\ UploadBitmap
  \/ /\ nops < MaxDrawOps
     /\ \E c \in RenderBitmapCalls : RenderBitmap(c)
  \/ SetPos(<<30, 50>>)
  \/ GetMessage(TRUE)
  \/ \E c \in BOOLEAN, e \in DrawSendCases :
       SendMessage(c, e.override, e.script, e.http_error)

SpecDraw == InitDraw /\ [][NextDraw]_vars

\* The calls the layout specification explores.
LayoutTextCalls ==
  {c \in WriteTextCalls :
     c.pos = None /\ c.orientation \in {ORIENTATION_0, ORIENTATION_180}
       /\ c.text # TextMarker}
LayoutTextBlockCalls ==
  {c \in WriteTextBlockCalls : c.justification = JUSTIFICATION_LEFT}
LayoutBoxCalls == {c \in DrawBoxCalls : c.pos = None}
LayoutLineCalls == {c \in LineCalls : c.pos = None}
LayoutBitmapCalls == {c \in RenderBitmapCalls : c.pos = None}
LayoutSendCases == {e \in SendCases : ~e.override /\ Len(e.script) # 1}

\* Every appending operation once, retrieval and sending.
NextLayout ==
  \/ /\ nops < MaxDrawOps
     /\ FieldOrigin(None)
  \/ /\ nops < MaxDrawOps
     /\ FieldSeparator
  \/ /\ nops < MaxDrawOps
     /\ \E e \in EncodingValues : ChangeFontEncoding(e)
  \/ /\ nops < MaxDrawOps
     /\ \E i \in IdentifierValues : LoadSwiss721Font(i)
  \/ /\ nops < MaxDrawOps
     /\ \E c \in LayoutTextCalls : WriteText(c)
  \/ /\ nops < MaxDrawOps
     /\ \E c \in LayoutTextBlockCalls : WriteTextBlock(c)
  \/ /\ nops < MaxDrawOps
     /\ \E c \in LayoutBoxCalls : DrawBox(c)
  \/ /\ nops < MaxDrawOps
     /\ \E c \in LayoutLineCalls : DrawHorizontalLine(c)
  \/ /\ nops < MaxDrawOps
     /\ \E c \in LayoutLineCalls : DrawVerticalLine(c)
  \/ /\ nops < MaxDrawOps
     /\ UploadBitmap
  \/ /\ nops < MaxDrawOps
     /\ \E c \in LayoutBitmapCalls : RenderBitmap(c)
  \/ /\ nops < MaxDrawOps
     /\ SetPrintWidth(800)
  \/ /\ nops < MaxDrawOps
     /\ SetLabelLength(1200)
  \/ /\ nops < MaxDrawOps
     /\ SetInverted(TRUE)
  \/ /\ nops < MaxDrawOps
     /\ SetMirrored(FALSE)
  \/ /\ nops < MaxDrawOps
     /\ SetLabelHome(10, 20)
  \/ /\ nops < MaxDrawOps
     /\ NextLabel
  \/ \E c \in BOOLEAN : GetMessage(c)
  \/ \E c \in BOOLEAN, e \in LayoutSendCases :
       SendMessage(c, e.override, e.script, e.http_error)

SpecLayout == InitDraw /\ [][NextLayout]_vars

(***************************************************************************)
(* Properties of the appending operations.                                 *)
(***************************************************************************)
\* before is a prefix of after.
IsPrefix(before, after) ==
  Len(before) <= Len(after) /\ SubSeq(after, 1, Len(before)) = before

\* The calls that append to the pending lines.
AppendingOps ==
  {"field_origin", "field_separator", "change_font_encoding", "load_font",
   "write_text", "write_text_block", "draw_box", "upload_bitmap",
   "render_bitmap", "set_print_width", "set_label_length", "set_inverted",
   "set_mirrored", "set_label_home", "next_label"}

\* C12: the pending lines are append-only until cleared: every drawing,
\* layout, font, encoding, bitmap and next-label call leaves the lines that
\* were pending as an unmodified prefix, whether it returns or raises; the
\* only calls after which they are not a prefix are get_message and a
\* successful send_message with clear_message true, and those leave the
\* buffer empty.
C12_AppendOnly ==
  [][/\ op' \in AppendingOps => IsPrefix(current_message, current_message')
     /\ ~IsPrefix(current_message, current_message') =>
          /\ \/ op' = "get_message"
             \/ op' = "send_message" /\ raised' = "none" /\ args'.clear_message
          /\ current_message' = <<>>]_vars

\* A write_text raised after appending two of its lines to pending lines.
C12_Witness ==
  /\ op = "write_text"
  /\ raised = "UnicodeEncodeError"
  /\ Len(current_message) > 2
  /\ nops = 2

\* The calls that take an optional position; the line helpers are calls of
\* draw_box.
PositionOps ==
  {"field_origin", "write_text", "write_text_block", "draw_box",
   "render_bitmap"}

OriginAtCursor == S(<<"^", "F", "O", "3", "0", ",", "5", "0">>)
OriginAtArgument == S(<<"^", "F", "O", "3", ",", "1", "2">>)

\* C13: field_origin, write_text, write_text_block, draw_box, the line
\* helpers and render_bitmap emit as their first line the origin at the
\* position given to the call, or at the session cursor when none is given,
\* and leave the cursor, the character size and the default font as they
\* were; so do get_message and send_message.
C13_PositionDefaults ==
  [][/\ (op' \in PositionOps /\ Len(current_message') > Len(current_message)) =>
          LET p == IF args'.pos = None THEN pos ELSE args'.pos[1] IN
            current_message'[Len(current_message) + 1]
              = S(<<"^", "F", "O">>) \o Dec(p[1]) \o S(<<",">>) \o Dec(p[2])
     /\ op' \in PositionOps \cup {"get_message", "send_message"} =>
          /\ pos' = pos
          /\ char_size' = char_size
          /\ font' = font]_vars

\* With the cursor moved to (30, 50), a call without a position followed a
\* call given the position (3, 12).
C13_Witness ==
  /\ op \in PositionOps
  /\ args.pos = None
  /\ pos = <<30, 50>>
  /\ \E i \in 1..Len(current_message) :
       /\ current_message[i] = OriginAtArgument
       /\ \E j \in (i + 1)..Len(current_message) :
            current_message[j] = OriginAtCursor

(***************************************************************************)
(* Zebra._send in socket mode, one socket write at a time.                 *)
(*                                                                         *)
(* While _send is in its loop, op is "_send" and raised is "running"; args *)
(* holds the locals total_sent, length and sent (the value the last write  *)
(* returned, -1 before the first), ret the message and wire the bytes the  *)
(* socket has accepted.                                                    *)
(***************************************************************************)
Sending == op = "_send" /\ raised = "running"

Remainder_Whole(message, total_sent) == message
\* message[total_sent:]
Remainder(message, total_sent) == SubSeq(message, total_sent + 1, Len(message))

\* What the socket may return from one send: it accepts at most this many
\* bytes of what it is handed.
WriteCounts == {0, 3, 4, 64}

\* _send up to the loop, for the document send_message hands it.
SendStart(override) ==
  /\ constructed
  /\ mode = MODE_SOCKET
  /\ ~Sending
  /\ op' = "_send"
  /\ ret' = zpl(current_message)
  /\ wire' = <<>>
  /\ IF override
     THEN /\ raised' = "Exception: override"
          /\ args' = [override |-> override]
     ELSE IF socket = "None"
     THEN /\ raised' = "Exception: not connected"
          /\ args' = [override |-> override]
     ELSE /\ raised' = "running"
          /\ args' = [total_sent |-> 0, length |-> Len(ret'), sent |-> -1]
  /\ UNCHANGED <<session, convert_to_ascii, bmpvars, nops, marks>>

\* One turn of the loop: the socket accepts at most count bytes.
SendWrite(count) ==
  /\ Sending
  /\ args.total_sent < args.length
  /\ IF socket = "closed"
     THEN /\ raised' = "socket.error"
          /\ UNCHANGED <<args, wire>>
     ELSE \E data \in {Remainder(ret, args.total_sent)} :
          \E sent \in {Min(count, Len(data))} :
            /\ raised' = IF sent = 0 THEN "Exception: connection broken"
                         ELSE "running"
            /\ args' = [args EXCEPT !.sent = sent,
                                    !.total_sent = IF sent = 0 THEN @ ELSE @ + sent]
            /\ wire' = wire \o SubSeq(data, 1, sent)
  /\ UNCHANGED <<session, convert_to_ascii, bmpvars, op, ret, nops, marks>>

\* The loop condition fails and _send returns.
SendReturn ==
  /\ Sending
  /\ ~(args.total_sent < args.length)
  /\ raised' = "none"
  /\ UNCHANGED <<session, convert_to_ascii, bmpvars, op, args, ret, wire, nops,
                 marks>>

\* A socket session: connecting, disconnecting, appending, and _send.
NextSend ==
  \/ /\ ~Sending
     /\ Connect(TRUE)
  \/ /\ ~Sending
     /\ Disconnect
  \/ /\ ~Sending
     /\ nops < MaxSessionOps
     /\ FieldSeparator
  \/ \E o \in BOOLEAN : SendStart(o)
  \/ \E n \in WriteCounts : SendWrite(n)
  \/ SendReturn

\* A call of _send keeps running until it returns or raises.
SendRuns == (\E n \in WriteCounts : SendWrite(n)) \/ SendReturn

SpecSend == Init /\ [][NextSend]_vars /\ WF_vars(SendRuns)

\* C14: in socket mode every write hands the socket the document from the
\* first unsent byte on, so the bytes accepted are consecutive pieces of the
\* document in order; _send returns only when all of them are written,
\* raises 'connection broken' at the first write that returns 0, and every
\* other write strictly reduces what remains, so the loop terminates.
C14_SendLoop ==
  /\ [][op' = "_send" =>
          /\ IsPrefix(wire', ret')
          /\ raised' = "none" => wire' = ret'
          /\ Sending =>
               /\ ret' = ret
               /\ wire' # wire =>
                    /\ wire' = wire \o SubSeq(ret, Len(wire) + 1, Len(wire'))
                    /\ args'.total_sent = Len(wire')
               /\ (wire' = wire /\ Len(wire) < Len(ret) /\ socket = "open")
                    <=> raised' = "Exception: connection broken"
               /\ raised' = "running" =>
                    /\ Len(ret') - Len(wire') < Len(ret) - Len(wire)
                    /\ Len(ret') - Len(wire') >= 0]_vars
  /\ Sending ~> ~Sending

\* A document went out in several pieces and _send returned.
C14_Witness ==
  /\ op = "_send"
  /\ raised = "none"
  /\ wire = ret
  /\ args.sent > 0
  /\ args.sent < args.length
  /\ current_message # <<>>

(***************************************************************************)
(* Construction and the transport mode.                                    *)
(***************************************************************************)
\* Construction with any arguments, mode assignment, connection, appending
\* and sending.
NextConfig ==
  \/ \E m \in ModeValues, e \in EndpointValues : ZebraInit(m, e)
  \/ \E v \in ModeValues : SetMode(v)
  \/ \E c \in BOOLEAN : Connect(c)
  \/ Disconnect
  \/ /\ nops < MaxSessionOps
     /\ FieldSeparator
  \/ \E c \in BOOLEAN, e \in LayoutSendCases :
       SendMessage(c, e.override, e.script, e.http_error)

SpecConfig == InitConfig /\ [][NextConfig]_vars

ValidModes == {"SOCKET", "HTTP", "HTTPS"}

FontTextCalls == {c \in WriteTextCalls : c.text = TextAccent /\ c.char_size = None}
FontTextBlockCalls == {c \in WriteTextBlockCalls : c.font # None}

\* The default font, font loading, and text with and without a font of its
\* own.
NextFont ==
  \/ \E v \in FontValues : SetFont(v)
  \/ /\ nops < MaxDrawOps
     /\ \E i \in IdentifierValues : LoadSwiss721Font(i)
  \/ /\ nops < MaxDrawOps
     /\ \E c \in FontTextCalls : WriteText(c)
  \/ /\ nops < MaxDrawOps
     /\ \E c \in FontTextBlockCalls : WriteTextBlock(c)
  \/ GetMessage(TRUE)

SpecFont == Init /\ [][NextFont]_vars

\* The first position of byte b in line, or 0.
FirstIndex(line, b) ==
  IF \E i \in 1..Len(line) : line[i] = b
  THEN CHOOSE i \in 1..Len(line) : line[i] = b /\ \A j \in 1..(i - 1) : line[j] # b
  ELSE 0

\* line is '^A' followed by a one-character font, the orientation and ','.
FontLineOneChar(line) == FirstIndex(line, 44) = 5

\* line is '^CWT,' followed by a one-character identifier and ':'.
LoadLineOneChar(line) == FirstIndex(line, 58) = 7

\* C16: the default font always has length 1, an assignment of another
\* length raising and leaving it unchanged, and every ^A line and every
\* ^CWT line in the pending lines carries a one-character font identifier.
C16_FontOneChar ==
  /\ [](/\ Len(font) = 1
        /\ \A i \in 1..Len(current_message) :
             /\ StartsWith(current_message[i], S(<<"^", "A">>))
                  => FontLineOneChar(current_message[i])
             /\ StartsWith(current_message[i], S(<<"^", "C", "W", "T", ",">>))
                  => LoadLineOneChar(current_message[i]))
  /\ [][(op' = "font" /\ Len(args') # 1) =>
          (raised' # "none" /\ font' = font)]_vars

\* The encoded lines a write_text call with the arguments c appends.
TextLinesOf(c) == message_lines(<<>>, WriteTextLines(c)).msg

\* C17: a write_text_block that returns appends exactly five lines, ^FO, ^A,
\* ^FB, ^FD, ^FS: the four lines write_text appends for the same arguments,
\* with the line '^FB<width>,<max_lines>,<add_line_space>,<justification>,
\* <hanging_indent>' between the font line and the field data; with an
\* unsupported orientation it raises and appends nothing.
C17_TextBlockLines ==
  [][op' = "write_text_block" =>
       /\ raised' = "none" =>
            /\ Appended(current_message, current_message', 5)
            /\ LET n == Len(current_message)
                   new == SubSeq(current_message', n + 1, n + 5)
               IN /\ <<new[1], new[2], new[4], new[5]>> = TextLinesOf(args')
                  /\ StartsWith(new[1], DirectiveFO)
                  /\ StartsWith(new[2], DirectiveA)
                  /\ StartsWith(new[4], DirectiveFD)
                  /\ new[5] = DirectiveFS
                  /\ new[3] = S(<<"^", "F", "B">>) \o Dec(args'.width)
                                \o S(<<",">>) \o Dec(args'.max_lines)
                                \o S(<<",">>) \o Dec(args'.add_line_space)
                                \o S(<<",">>) \o args'.justification
                                \o S(<<",">>) \o Dec(args'.hanging_indent)
       /\ args'.orientation \notin SupportedOrientations =>
            (raised' # "none" /\ current_message' = current_message)]_vars

\* A block of two centred lines was appended after other lines.
C17_Witness ==
  /\ op = "write_text_block"
  /\ raised = "none"
  /\ Len(current_message) > 5
  /\ current_message[Len(current_message) - 2]
       = S(<<"^", "F", "B", "4", "0", "0", ",", "2", ",", "3", ",", "C", ",", "5">>)

\* The raster-reference line for the decoded bitmap and a scale: '^XG', a
\* device letter, ':', the handle, '.GRF,' and the two scale factors.
IsRasterLine(line, scale) ==
  /\ StartsWith(line, S(<<"^", "X", "G">>))
  /\ Len(line) > 4
  /\ SubSeq(line, 5, Len(line))
       = S(<<":">>) \o bmp.zebra_handle \o S(<<".", "G", "R", "F", ",">>)
           \o Dec(scale[1]) \o S(<<",">>) \o Dec(scale[2])

\* The step is a render_bitmap that appends n lines, first the origin and
\* then the raster reference, or an upload_bitmap that appends the upload
\* command as one line; the decoded bitmap stays as it was.
BitmapStep(n) ==
  /\ op' = "render_bitmap" =>
       /\ Appended(current_message, current_message', n)
       /\ StartsWith(current_message'[Len(current_message) + 1], DirectiveFO)
       /\ IsRasterLine(current_message'[Len(current_message) + 2], args'.scale)
       /\ bmp' = bmp
  /\ op' = "upload_bitmap" =>
       /\ Appended(current_message, current_message', 1)
       /\ current_message'[Len(current_message) + 1] = bmp.upload_cmd
       /\ bmp' = bmp

\* C18 as stated: render_bitmap appends exactly an origin line followed by
\* the raster-reference line, upload_bitmap exactly the upload command, and
\* neither changes the decoded bitmap.
C18_RenderTwoLines == [][BitmapStep(2)]_vars

\* C18, amended: render_bitmap appends exactly three lines, the origin line,
\* the raster-reference line and the field separator '^FS'; upload_bitmap
\* appends exactly the upload command; neither changes the decoded bitmap.
C18_RenderThreeLines ==
  [][/\ BitmapStep(3)
     /\ op' = "render_bitmap" =>
          current_message'[Len(current_message) + 3] = DirectiveFS]_vars

\* The bitmap was uploaded and then rendered at scale (2, 3).
C18_Witness ==
  /\ op = "render_bitmap"
  /\ args.scale = <<2, 3>>
  /\ bmp.state = "ok"
  /\ Len(current_message) = 4
  /\ current_message[1] = bmp.upload_cmd
  /\ IsRasterLine(current_message[3], <<2, 3>>)

(***************************************************************************)
(* zebrautil: label lists.                                                 *)
(*                                                                         *)
(* A label is a design whose build_zpl makes a fixed sequence of driver    *)
(* calls; here the calls are write_text calls.                             *)
(***************************************************************************)
\* Zebra.write_text on the pending lines msg: the lines after the call and
\* the exception raised.
WriteTextOn(msg, c) ==
  IF ~OrientationOk(c.orientation) THEN [msg |-> msg, raised |-> "ValueError"]
  ELSE message_lines(msg, WriteTextLines(c))

\* build_zpl of one label: its calls in order, up to the first that raises.
RECURSIVE LabelBuildZpl(_, _)
LabelBuildZpl(msg, calls) ==
  IF calls = <<>> THEN [msg |-> msg, raised |-> "none"]
  ELSE LET r == WriteTextOn(msg, Head(calls)) IN
         IF r.raised # "none" THEN r ELSE LabelBuildZpl(r.msg, Tail(calls))

NeedsMarker_Always(first) == TRUE
\* Whether the loop of ZebraLabelList.build_zpl calls next_label before a
\* label.
NeedsMarker(first) == ~first

\* The loop of ZebraLabelList.build_zpl over the remaining labels: the
\* pending lines, the positions of the next_label lines, and the exception.
RECURSIVE ListBuildZpl(_, _, _, _)
ListBuildZpl(msg, mk, labels, first) ==
  IF labels = <<>> THEN [msg |-> msg, marks |-> mk, raised |-> "none"]
  ELSE LET m1 == IF NeedsMarker(first)
                 THEN message_lines(msg, <<NextLabelLine>>).msg
                 ELSE msg
           mk1 == IF NeedsMarker(first) THEN mk \cup {Len(m1)} ELSE mk
           r == LabelBuildZpl(m1, Head(labels))
       IN IF r.raised # "none"
          THEN [msg |-> r.msg, marks |-> mk1, raised |-> r.raised]
          ELSE ListBuildZpl(r.msg, mk1, Tail(labels), FALSE)

\* ZebraLabelList(labels).build_zpl(zebra)
BuildZpl(labels) ==
  \E r \in {ListBuildZpl(current_message, marks, labels, TRUE)} :
    /\ constructed
    /\ op' = "build_zpl"
    /\ args' = labels
    /\ raised' = r.raised
    /\ current_message' = r.msg
    /\ marks' = r.marks
    /\ nops' = nops + 1
    /\ ret' = <<>>
    /\ wire' = <<>>
    /\ UNCHANGED <<constructed, mode, socket, defaults, convert_to_ascii,
                   bmpvars>>

\* The label designs explored: one at the session defaults, one with
\* arguments of its own.
LabelDesigns ==
  {<<c>> : c \in {d \in DrawTextCalls : d.font \in {None, Some(S(<<"A">>))}}}

\* The lists of at most MaxLabels labels.
LabelLists == UNION {[1..k -> LabelDesigns] : k \in 0..MaxLabels}

\* Label lists built into documents, which are read and retrieved.
NextList ==
  \/ /\ nops < MaxBuilds
     /\ \E labels \in LabelLists : BuildZpl(labels)
  \/ SetPos(<<30, 50>>)
  \/ ReadZpl
  \/ \E c \in BOOLEAN : GetMessage(c)

SpecList == Init /\ [][NextList]_vars

\* The lines a label appends when it is built alone.
LabelLines(calls) == LabelBuildZpl(<<>>, calls).msg

\* The number of lines of the first k of the labels whose lines are given.
RECURSIVE LinesBefore(_, _)
LinesBefore(lines, k) ==
  IF k = 0 THEN 0 ELSE LinesBefore(lines, k - 1) + Len(lines[k])

\* C19: building a list of n labels appends the lines of the labels in list
\* order with exactly one next_label line between consecutive labels: n-1
\* of them for n >= 1, none before the first label or after the last, and
\* nothing for an empty list.
C19_ListMarkers ==
  [][(op' = "build_zpl" /\ raised' = "none") =>
       \E n \in {Len(args')} :
       \E base \in {Len(current_message)} :
       \E lines \in {[i \in 1..n |-> LabelLines(args'[i])]} :
          /\ current_message' = current_message \o Join(<<BatchJoinMarker>>, lines)
          /\ marks' \ marks = {base + LinesBefore(lines, k) + k : k \in 1..(n - 1)}
          /\ Cardinality(marks' \ marks) = IF n = 0 THEN 0 ELSE n - 1
          /\ n = 0 => current_message' = current_message
          /\ n > 0 => /\ base + 1 \notin marks'
                      /\ Len(current_message') \notin marks' \ marks]_vars

\* A list of three labels, not all alike, was built.
C19_Witness ==
  /\ op = "build_zpl"
  /\ raised = "none"
  /\ Len(args) = 3
  /\ args[1] # args[2]
  /\ Cardinality(marks) = 2
  /\ Len(current_message) = 14

(***************************************************************************)
(* zebrautil: ZebraLabel.print_label.                                      *)
(***************************************************************************)
\* Zebra.connect on a session whose socket is sock: the socket afterwards
\* and the exception raised; accepted says whether the printer accepts the
\* connection.
ConnectOn(sock, accepted) ==
  IF mode # MODE_SOCKET THEN [socket |-> sock, raised |-> "none"]
  ELSE IF accepted THEN [socket |-> "open", raised |-> "none"]
  ELSE [socket |-> "None", raised |-> "Exception"]

\* Zebra.disconnect on a session whose socket is sock.
DisconnectOn(sock) ==
  IF mode # MODE_SOCKET THEN [socket |-> sock, raised |-> "none"]
  ELSE IF sock = "None" THEN [socket |-> sock, raised |-> "AttributeError"]
  ELSE [socket |-> "closed", raised |-> "none"]

\* Zebra._send on a session whose socket is sock: the exception raised.
SendOn(sock, message, override, script, http_error) ==
  IF mode = MODE_SOCKET
  THEN IF override THEN "Exception: override"
       ELSE IF sock = "None" THEN "Exception: not connected"
       ELSE IF sock = "closed" THEN "socket.error"
       ELSE IF SendLoop(Len(message), 0, script).broken
            THEN "Exception: connection broken"
       ELSE "none"
  ELSE IF http_error THEN "Exception: http"
  ELSE "none"

\* The body of print_label: the calls it makes in order, and the socket,
\* the pending lines and the exception it leaves.
PrintLabelRun(connect, calls, accepted, e) ==
  LET c == IF connect THEN ConnectOn(socket, accepted)
           ELSE [socket |-> socket, raised |-> "none"]
      b == LabelBuildZpl(current_message, calls)
      s == SendOn(c.socket, zpl(b.msg), e.override, e.script, e.http_error)
      d == IF connect THEN DisconnectOn(c.socket)
           ELSE [socket |-> c.socket, raised |-> "none"]
      pre == IF connect THEN <<"connect">> ELSE <<>>
      post == IF connect THEN <<"disconnect">> ELSE <<>>
  IN IF c.raised # "none"
     THEN [events |-> pre, socket |-> c.socket, msg |-> current_message,
           raised |-> c.raised]
     ELSE IF b.raised # "none"
     THEN [events |-> pre \o <<"build">>, socket |-> c.socket, msg |-> b.msg,
           raised |-> b.raised]
     ELSE IF s # "none"
     THEN [events |-> pre \o <<"build", "send">>, socket |-> c.socket,
           msg |-> b.msg, raised |-> s]
     ELSE [events |-> pre \o <<"build", "send">> \o post, socket |-> d.socket,
           msg |-> <<>>, raised |-> d.raised]

\* label.print_label(zebra, connect, host_override)
PrintLabel(connect, calls, accepted, e) ==
  \E r \in {PrintLabelRun(connect, calls, accepted, e)} :
    /\ constructed
    /\ op' = "print_label"
    /\ args' = [connect |-> connect, override |-> e.override, events |-> r.events]
    /\ raised' = r.raised
    /\ socket' = r.socket
    /\ current_message' = r.msg
    /\ nops' = IF r.msg = <<>> THEN 0
               ELSE IF r.msg = current_message THEN nops ELSE nops + 1
    /\ marks' = IF r.msg = <<>> THEN {} ELSE marks
    /\ ret' = <<>>
    /\ wire' = <<>>
    /\ UNCHANGED <<constructed, mode, defaults, convert_to_ascii, bmpvars>>

\* The labels printed: one that builds, one whose call raises midway.
PrintDesigns ==
  {<<c>> : c \in {d \in WriteTextCalls :
                    d.pos = None /\ d.orientation \in {ORIENTATION_0, ORIENTATION_180}
                      /\ d.text # TextMarker}}

\* Labels printed with and without a connection of their own, and manual
\* connection handling.
NextPrint ==
  \/ /\ nops < MaxSessionOps
     /\ \E connect \in BOOLEAN, calls \in PrintDesigns, accepted \in BOOLEAN,
           e \in SendCases : PrintLabel(connect, calls, accepted, e)
  \/ \E c \in BOOLEAN : Connect(c)
  \/ Disconnect
  \/ GetMessage(TRUE)

SpecPrint == InitSession /\ [][NextPrint]_vars

\* C20: print_label with connect=True calls connect, build_zpl,
\* send_message and disconnect in that order and leaves no connection open
\* on any exit, also when the build or the send raises; with connect=False
\* it calls neither connect nor disconnect.
C20_ConnectionBracket ==
  [][op' = "print_label" =>
       /\ args'.connect =>
            /\ raised' = "none" =>
                 args'.events = <<"connect", "build", "send", "disconnect">>
            /\ socket' # "open"
       /\ ~args'.connect =>
            /\ \A i \in 1..Len(args'.events) :
                 args'.events[i] \notin {"connect", "disconnect"}
            /\ socket' = socket]_vars

\* The '<dev>:<name>.GRF' part of a '^XG' or '~DG' line: what lies between
\* the three-character directive and the first comma.
StoredObject(line) == SubSeq(line, 4, FirstIndex(line, 44) - 1)

\* C21: the raster reference render_bitmap emits for the decoded bitmap
\* names the same stored object as the bitmap's upload command: the
\* '<dev>:<name>.GRF' part of the '^XG' line equals that of the '~DG' line.
C21_SameStoredObject ==
  [][(op' = "render_bitmap" /\ Len(current_message') > Len(current_message) + 1) =>
       LET line == current_message'[Len(current_message) + 2] IN
         /\ StartsWith(line, S(<<"^", "X", "G">>))
         /\ StartsWith(bmp.upload_cmd, S(<<"~", "D", "G">>))
         /\ StoredObject(line) = StoredObject(bmp.upload_cmd)]_vars

\* No connect() has succeeded since construction, since the last failed
\* connect() or since the last disconnect(): the session holds no socket,
\* or holds the one disconnect() closed.
NotConnected == mode = MODE_SOCKET /\ socket # "open"

\* C22: in socket mode a document is transmitted only over an open
\* connection: bytes reach the wire only when the socket is open; whenever
\* no connect() has succeeded since construction, the last failed connect()
\* or the last disconnect(), send_message writes nothing, raises the
\* 'not connected' error and leaves the pending sequence unchanged; and a
\* failed connect() leaves the session holding no socket.
C22_OpenConnectionOnly ==
  [][/\ (op' = "send_message" /\ mode = MODE_SOCKET /\ wire' # <<>>) =>
          socket = "open"
     /\ (op' = "send_message" /\ NotConnected /\ ~args'.override) =>
          /\ raised' = "Exception: not connected"
          /\ wire' = <<>>
          /\ current_message' = current_message
     /\ (op' = "connect" /\ mode = MODE_SOCKET /\ raised' # "none") =>
          socket' = "None"]_vars

====
